---- MODULE Spec2Model ----
(***************************************************************************)
(* A model of continuity's training loop (continuity.trainer.Trainer), of  *)
(* the spectral resize of continuity.operators.fourierlayer, of MSELoss    *)
(* (continuity.operators.losses) and of the constructor of                 *)
(* ConvolutionalNeuralNetwork (continuity.operators.cnn).                  *)
(*                                                                         *)
(* Trainer.fit is single-threaded: every statement of fit is a step of one *)
(* process whose position is pc.  `trace` records, per fit, every call fit *)
(* makes on a collaborator (callbacks, optimizer, test loss, criterion).   *)
(*                                                                         *)
(* Losses are rationals [num, den]; den = 0 stands for Python's None.      *)
(***************************************************************************)
EXTENDS Integers, Sequences, FiniteSets, TLC

\* ------------------------------------------------------------- bounds
MaxEpochs == 2
MaxBatches == 2
MaxLoss == 1
MaxFits == 2
MaxLen == 7
MaxPad == 3
MaxDim == 2
MaxVal == 1
MaxDepth == 4
MaxXDim == 4

Losses == 0..MaxLoss
\* tolerances: the least and the greatest loss, so that a loss can be below, at
\* and above the tolerance
Tols == {0, MaxLoss}

VARIABLES
    \* the caller
    profile,        \* which arguments the caller varies (the others keep one value)
    \* Trainer object and its environment
    device,         \* self.device
    verboseArg,     \* the `verbose` argument of Trainer.__init__
    verbose,        \* self.verbose
    opLoc,          \* where self.operator's parameters live
    distInit,       \* dist.is_available() and dist.is_initialized()
    callerList,     \* the caller's list object passed as `callbacks`
    fitNo,          \* number of fit calls made so far
    \* one fit call
    pc,             \* position in fit
    args,           \* the arguments of the running (or last) fit call
    callbacks,      \* fit's local `callbacks`
    criterion,      \* fit's local `criterion`
    operator,       \* fit's local `operator`: "plain" or "ddp"
    data_loader,    \* the DataLoader built by fit
    epoch,          \* fit's local `epoch` (0-based)
    it,             \* iterations of `for epoch in range(epochs)` begun
    batch,          \* batches of the current epoch consumed
    loss_train,     \* fit's local `loss_train`
    loss_test,      \* fit's local `loss_test`
    logs,           \* the Logs record of the current epoch
    trace,          \* calls made by the running (or last) fit, in order
    optSteps,          \* the optimizer optSteps of the current (or last) epoch, in order
    \* spectral resize
    fphase,         \* "input", "padded", "cut" ("off" while the Trainer runs)
    fft_values,     \* the spectral tensor, in shifted order: rows are axis 0
    dim,            \* the spectral axes: {0} or {0, 1}
    padded,         \* the result of _zero_padding
    cut,            \* the result of _remove_large_frequencies on `padded`
    \* MSELoss.__call__
    lphase,         \* "input", "returned", "raised" ("off" elsewhere)
    pred,           \* the tensor the operator answers with
    vlab,           \* the labels v
    opCalls,        \* the calls of the operator, each with its arguments
    v_pred,         \* the local `v_pred`
    mseOut,         \* the value returned (None while there is none)
    \* ConvolutionalNeuralNetwork.__init__
    cphase,         \* "args", "built", "failed" ("off" elsewhere)
    cargs,          \* the arguments of the constructor
    net,            \* the layers of the network built
    cerr            \* the message of the failed assertion

trainerVars == <<profile, device, verboseArg, verbose, opLoc, distInit, callerList, fitNo,
                 pc, args, callbacks, criterion, operator, data_loader, epoch, it,
                 batch, loss_train, loss_test, logs, trace, optSteps>>

fourierVars == <<fphase, fft_values, dim, padded, cut>>

lossVars == <<lphase, pred, vlab, opCalls, v_pred, mseOut>>

cnnVars == <<cphase, cargs, net, cerr>>

vars == <<trainerVars, fourierVars, lossVars, cnnVars>>

\* ------------------------------------------------------------- values
Devices == {"cpu", "cuda:0", "cuda:1"}

\* torch.device.index: absent for "cpu"
HasIndex(d) == d # "cpu"
DeviceIndex(d) == IF d = "cuda:0" THEN 0 ELSE 1

Frac(n, d) == [num |-> n, den |-> d]
NoLoss == Frac(0, 0)
IsNone(l) == l.den = 0
\* l <= tol on rationals
LessEq(l, tol) == l.num <= tol * l.den

Callback(kind, id) == [kind |-> kind, id |-> id]
NoCallback == Callback("none", 0)
\* a scheduler callback object the caller owns and passes as lr_scheduler
CallerScheduler == Callback("scheduler", 0)

NoCriterion == [kind |-> "None", tol |-> 0]
CriterionArgs ==
    {NoCriterion} \cup { [kind |-> k, tol |-> t] : k \in {"train", "test"}, t \in Tols }

TrainingLossCriterion(tol) == [kind |-> "train", tol |-> tol]
TestLossCriterion(tol) == [kind |-> "test", tol |-> tol]

Logs(e, lt, lv) == [epoch |-> e, loss_train |-> lt, loss_test |-> lv]
NoLogs == Logs(0, NoLoss, NoLoss)

\* One call fit makes: ev names the call, cb the callback called, ep the
\* 1-based epoch (0 outside the loop), loc where the operator is, op the
\* operator used, res the criterion's answer.
Event(ev, cb, ep, loc, op, res) ==
    [ev |-> ev, cb |-> cb, ep |-> ep, loc |-> loc, op |-> op, res |-> res]

\* a tensor: its shape and its elements in row-major order
Tensor(shape, data) == [shape |-> shape, data |-> data]
NoTensor == Tensor(<<>>, <<>>)

\* the layers of a network: the convolution class, its hidden layers
NoLayer == [in |-> 0, out |-> 0, kernel_size |-> 0, padding |-> 0]
NoNet == [conv |-> "None", first |-> NoLayer, hidden |-> <<>>, last |-> NoLayer]

\* no MSELoss call, no ConvolutionalNeuralNetwork under construction
LossOff ==
    /\ lphase = "off"
    /\ pred = NoTensor
    /\ vlab = NoTensor
    /\ opCalls = <<>>
    /\ v_pred = NoTensor
    /\ mseOut = NoLoss
CnnOff ==
    /\ cphase = "off"
    /\ cargs = [depth |-> 0, xdim |-> 0, udim |-> 0, vdim |-> 0,
                width |-> 0, kernel_size |-> 0]
    /\ net = NoNet
    /\ cerr = ""

\* ------------------------------------------------------------- Trainer.__init__
InitVerbose(d, v) ==
    IF HasIndex(d)
    THEN (v = "True") \/ (DeviceIndex(d) = 0)
    ELSE TRUE

\* The fit arguments the caller draws from.  Under "loop" the caller varies what
\* the epoch loop reads (criterion, tol, test_dataset, epochs, the number of
\* batches) on a default Trainer on the cpu, passes its list and keeps the
\* signature's defaults elsewhere (shuffle=True, lr_scheduler=True); under
\* "setup" it varies the Trainer, the process group and what the set-up of fit
\* reads (callbacks, shuffle, lr_scheduler) on a default criterion.
LoopInputs ==
    [callbacks : {"list"}, tol : Tols, epochs : 0..MaxEpochs,
     criterion : CriterionArgs, shuffle : {TRUE}, test_dataset : BOOLEAN,
     lr_scheduler : {"True"}, len : 1..MaxBatches]

SetupInputs ==
    [callbacks : {"None", "list"}, tol : {0}, epochs : 0..1,
     criterion : {NoCriterion}, shuffle : BOOLEAN, test_dataset : {FALSE},
     lr_scheduler : {"True", "False", "callback"}, len : {1}]

FitInputs(p) == IF p = "loop" THEN LoopInputs ELSE SetupInputs
\* the fit calls the caller makes on one Trainer: one under "loop", the effects
\* of a fit on the next (the operator's device, the caller's list) under "setup"
FitsOf(p) == IF p = "loop" THEN 1 ELSE MaxFits

NoArgs ==
    [callbacks |-> "None", passed |-> <<>>, tol |-> 0, epochs |-> 0,
     criterion |-> NoCriterion, shuffle |-> FALSE, test_dataset |-> FALSE,
     lr_scheduler |-> "False"]
NoLoader == [shuffle |-> FALSE, sampler |-> "None", len |-> 1]

CallerLists == {<<>>, <<Callback("user", 1), Callback("user", 2)>>}

Init ==
    /\ profile \in {"loop", "setup"}
    /\ device \in IF profile = "loop" THEN {"cpu"} ELSE Devices
    /\ verboseArg \in IF profile = "loop" THEN {"None"} ELSE {"None", "True", "False"}
    /\ verbose = InitVerbose(device, verboseArg)
    /\ opLoc = "cpu"
    /\ distInit \in IF profile = "loop" THEN {FALSE} ELSE BOOLEAN
    /\ callerList \in CallerLists
    /\ fitNo = 0
    /\ pc = "idle"
    /\ args = NoArgs
    /\ callbacks = <<>>
    /\ criterion = NoCriterion
    /\ operator = "plain"
    /\ data_loader = NoLoader
    /\ epoch = 0
    /\ it = 0
    /\ batch = 0
    /\ loss_train = NoLoss
    /\ loss_test = NoLoss
    /\ logs = NoLogs
    /\ trace = <<>>
    /\ optSteps = <<>>
    /\ fphase = "off"
    /\ fft_values = <<>>
    /\ dim = {}
    /\ padded = <<>>
    /\ cut = <<>>
    /\ LossOff
    /\ CnnOff

\* ------------------------------------------------------------- Trainer.fit
\* lines 95-104: callbacks = callbacks or []; append PrintTrainingLoss, scheduler
EffectiveCallbacks(passed, verb, lr, n) ==
    passed
    \o (IF verb THEN <<Callback("print", n)>> ELSE <<>>)
    \o (IF lr = "False" THEN <<>>
        ELSE IF lr = "True" THEN <<Callback("linear", n)>>
        ELSE <<CallerScheduler>>)

\* mutant: the default is the training-loss criterion whatever the test set
DefaultCriterionTrainOnly(crit, test, tol) ==
    IF crit = NoCriterion THEN TrainingLossCriterion(tol) ELSE crit

\* lines 106-111
DefaultCriterion(crit, test, tol) ==
    IF crit = NoCriterion
    THEN IF ~test THEN TrainingLossCriterion(tol) ELSE TestLossCriterion(tol)
    ELSE crit

\* lines 121-128
UseDDP(dist) == dist
WrappedOperator(dist) == IF UseDDP(dist) THEN "ddp" ELSE "plain"

\* mutant: the caller's shuffle is kept beside the sampler
BuildLoaderKeepShuffle(dist, sh, nb) ==
    [shuffle |-> sh,
     sampler |-> IF UseDDP(dist) THEN "DistributedSampler" ELSE "None",
     len |-> nb]

\* lines 122-140
BuildLoader(dist, sh, nb) ==
    [shuffle |-> IF UseDDP(dist) THEN FALSE ELSE sh,
     sampler |-> IF UseDDP(dist) THEN "DistributedSampler" ELSE "None",
     len |-> nb]

\* line 119
MoveToDevice(d) == d

\* mutant: the operator is left where it was trained
MoveBackSkipped(loc) == loc

\* line 195
MoveBack(loc) == "cpu"

\* lines 113-116
PrintParams(verb, loc) ==
    IF verb THEN <<Event("params", NoCallback, 0, loc, "plain", FALSE)>> ELSE <<>>

\* mutant: the callbacks are called last to first
CallAllReversed(ev, cbs, ep, loc, op) ==
    [i \in 1..Len(cbs) |-> Event(ev, cbs[Len(cbs) + 1 - i], ep, loc, op, FALSE)]

\* `for callback in callbacks: callback...`
CallAll(ev, cbs, ep, loc, op) ==
    [i \in 1..Len(cbs) |-> Event(ev, cbs[i], ep, loc, op, FALSE)]

\* one call made inside the closure: on which operator and batch, with which loss
ClosureCall(call, op, b, l) == [call |-> call, op |-> op, batch |-> b, loss |-> l]

\* mutant: the gradients of the batch before are not cleared
ClosureNoZeroGrad(op, b, l) ==
    <<ClosureCall("loss_fn", op, b, Frac(l, 1)),
      ClosureCall("backward", op, b, Frac(l, 1)),
      ClosureCall("return", op, b, Frac(l, 1))>>

\* lines 156-160: closure(x=x, u=u, y=y, v=v), bound to batch b, whose loss is l
Closure(op, b, l) ==
    <<ClosureCall("zero_grad", op, b, NoLoss),
      ClosureCall("loss_fn", op, b, Frac(l, 1)),
      ClosureCall("backward", op, b, Frac(l, 1)),
      ClosureCall("return", op, b, Frac(l, 1))>>

\* line 162: loss = self.optimizer.step(closure); the optimizer (Adam unless the
\* caller gives another) runs the closure once and returns its loss
OptimizerStep(op, b, l) ==
    LET run == Closure(op, b, l)
    IN  [batch |-> b, closure |-> run, loss |-> run[Len(run)].loss]

FitCall ==
    /\ pc = "idle"
    /\ fitNo < FitsOf(profile)
    /\ \E in \in FitInputs(profile) :
        LET passed == IF in.callbacks = "list" THEN callerList ELSE <<>>
            \* `callbacks or []`: an empty or absent list is replaced by a new one
            aliased == in.callbacks = "list" /\ callerList # <<>>
            cbs == EffectiveCallbacks(passed, verbose, in.lr_scheduler, fitNo + 1)
        IN  /\ args' = [callbacks |-> in.callbacks, passed |-> passed, tol |-> in.tol,
                        epochs |-> in.epochs, criterion |-> in.criterion,
                        shuffle |-> in.shuffle, test_dataset |-> in.test_dataset,
                        lr_scheduler |-> in.lr_scheduler]
            /\ callbacks' = cbs
            /\ callerList' = IF aliased THEN cbs ELSE callerList
            /\ criterion' = DefaultCriterion(in.criterion, in.test_dataset, in.tol)
            /\ opLoc' = MoveToDevice(device)
            /\ operator' = WrappedOperator(distInit)
            /\ data_loader' = BuildLoader(distInit, in.shuffle, in.len)
            /\ trace' = PrintParams(verbose, opLoc)
    /\ fitNo' = fitNo + 1
    /\ pc' = "begin"
    /\ epoch' = 0
    /\ it' = 0
    /\ batch' = 0
    /\ loss_train' = NoLoss
    /\ loss_test' = NoLoss
    /\ logs' = NoLogs
    /\ optSteps' = <<>>
    /\ UNCHANGED <<fourierVars, lossVars, cnnVars, profile, device, verboseArg, verbose, distInit>>

\* lines 142-148
TrainBegin ==
    /\ pc = "begin"
    /\ trace' = trace \o CallAll("on_train_begin", callbacks, 0, opLoc, operator)
    /\ pc' = "loop"
    /\ UNCHANGED <<fourierVars, lossVars, cnnVars, optSteps, profile, device, verboseArg, verbose, opLoc, distInit, callerList, fitNo,
                   args, callbacks, criterion, operator, data_loader, epoch, it,
                   batch, loss_train, loss_test, logs>>

\* lines 149-150: the head of `for epoch in range(epochs)`
NextEpoch ==
    /\ pc = "loop"
    /\ IF it < args.epochs
       THEN /\ epoch' = it
            /\ it' = it + 1
            /\ loss_train' = Frac(0, 1)
            /\ batch' = 0
            /\ optSteps' = <<>>
            /\ pc' = "batch"
       ELSE /\ pc' = "end"
            /\ UNCHANGED <<epoch, it, loss_train, batch, optSteps>>
    /\ UNCHANGED <<fourierVars, lossVars, cnnVars, profile, device, verboseArg, verbose, opLoc, distInit, callerList, fitNo,
                   args, callbacks, criterion, operator, data_loader,
                   loss_test, logs, trace>>

\* lines 152-165: one batch, one optimizer.step(closure)
Step ==
    /\ pc = "batch"
    /\ batch < data_loader.len
    /\ \E loss \in Losses :
        /\ loss_train' = Frac(loss_train.num + loss, 1)
        /\ trace' = Append(trace, Event("step", NoCallback, epoch + 1, opLoc, operator, FALSE))
        /\ optSteps' = Append(optSteps, OptimizerStep(operator, batch + 1, loss))
    /\ batch' = batch + 1
    /\ UNCHANGED <<fourierVars, lossVars, cnnVars, profile, device, verboseArg, verbose, opLoc, distInit, callerList, fitNo,
                   pc, args, callbacks, criterion, operator, data_loader, epoch, it,
                   loss_test, logs>>

\* lines 167-173: mean training loss, then the test loss if a test set was given
TestLoss ==
    /\ pc = "batch"
    /\ batch = data_loader.len
    /\ loss_train' = Frac(loss_train.num, data_loader.len)
    /\ IF args.test_dataset
       THEN \E l \in Losses :
              /\ loss_test' = Frac(l, 1)
              /\ trace' = Append(trace, Event("dataset_loss", NoCallback, epoch + 1,
                                              opLoc, operator, FALSE))
       ELSE UNCHANGED <<loss_test, trace>>
    /\ pc' = "callbacks"
    /\ UNCHANGED <<fourierVars, lossVars, cnnVars, optSteps, profile, device, verboseArg, verbose, opLoc, distInit, callerList, fitNo,
                   args, callbacks, criterion, operator, data_loader, epoch, it,
                   batch, logs>>

\* lines 175-183
EpochCallbacks ==
    /\ pc = "callbacks"
    /\ logs' = Logs(epoch + 1, loss_train, loss_test)
    /\ trace' = trace \o CallAll("callback", callbacks, epoch + 1, opLoc, operator)
    /\ pc' = "criterion"
    /\ UNCHANGED <<fourierVars, lossVars, cnnVars, optSteps, profile, device, verboseArg, verbose, opLoc, distInit, callerList, fitNo,
                   args, callbacks, criterion, operator, data_loader, epoch, it,
                   batch, loss_train, loss_test>>

\* criterion(logs): TrainingLossCriterion / TestLossCriterion
CriterionRaises(c, l) == c.kind = "test" /\ IsNone(l.loss_test)
CriterionCall(c, l) ==
    IF c.kind = "train" THEN LessEq(l.loss_train, c.tol)
    ELSE LessEq(l.loss_test, c.tol)

\* mutant: the stop leaves fit at once, as a `return` in place of `break` would
AfterCriterionReturn(raises, stop) ==
    IF raises THEN "raised" ELSE IF stop THEN "tocpu" ELSE "loop"

\* mutant: the answer of the criterion is dropped, the loop goes on
AfterCriterionNoBreak(raises, stop) ==
    IF raises THEN "raised" ELSE "loop"

\* lines 187-188: `if criterion(logs): break`; an exception leaves fit
AfterCriterion(raises, stop) ==
    IF raises THEN "raised" ELSE IF stop THEN "end" ELSE "loop"

\* lines 185-188
StoppingCriterion ==
    /\ pc = "criterion"
    /\ IF criterion # NoCriterion
       THEN LET raises == CriterionRaises(criterion, logs)
                stop == ~raises /\ CriterionCall(criterion, logs)
            IN  /\ trace' = Append(trace, Event("criterion", NoCallback, epoch + 1,
                                                opLoc, operator, stop))
                /\ pc' = AfterCriterion(raises, stop)
       ELSE /\ pc' = "loop"
            /\ UNCHANGED trace
    \* the epoch is over
    /\ optSteps' = <<>>
    /\ UNCHANGED <<fourierVars, lossVars, cnnVars, profile, device, verboseArg, verbose, opLoc, distInit, callerList, fitNo,
                   args, callbacks, criterion, operator, data_loader, epoch, it,
                   batch, loss_train, loss_test, logs>>

\* lines 190-192
TrainEnd ==
    /\ pc = "end"
    /\ trace' = trace \o CallAll("on_train_end", callbacks, 0, opLoc, operator)
    /\ pc' = "tocpu"
    /\ UNCHANGED <<fourierVars, lossVars, cnnVars, optSteps, profile, device, verboseArg, verbose, opLoc, distInit, callerList, fitNo,
                   args, callbacks, criterion, operator, data_loader, epoch, it,
                   batch, loss_train, loss_test, logs>>

\* line 195
ToCpu ==
    /\ pc = "tocpu"
    /\ opLoc' = MoveBack(opLoc)
    /\ pc' = "returned"
    /\ UNCHANGED <<fourierVars, lossVars, cnnVars, optSteps, profile, device, verboseArg, verbose, distInit, callerList, fitNo,
                   args, callbacks, criterion, operator, data_loader, epoch, it,
                   batch, loss_train, loss_test, logs, trace>>

\* fit returns, or the exception of the criterion propagates: the frame of fit
\* and its locals are gone, the Trainer, the operator and the caller's list stay
Return ==
    /\ pc \in {"returned", "raised"}
    /\ pc' = "idle"
    /\ args' = NoArgs
    /\ callbacks' = <<>>
    /\ criterion' = NoCriterion
    /\ operator' = "plain"
    /\ data_loader' = NoLoader
    /\ epoch' = 0
    /\ it' = 0
    /\ batch' = 0
    /\ loss_train' = NoLoss
    /\ loss_test' = NoLoss
    /\ logs' = NoLogs
    /\ trace' = <<>>
    /\ optSteps' = <<>>
    /\ UNCHANGED <<fourierVars, lossVars, cnnVars, profile, device, verboseArg, verbose, opLoc, distInit, callerList, fitNo>>

Next ==
    \/ FitCall
    \/ TrainBegin
    \/ NextEpoch
    \/ Step
    \/ TestLoss
    \/ EpochCallbacks
    \/ StoppingCriterion
    \/ TrainEnd
    \/ ToCpu
    \/ Return

Spec == Init /\ [][Next]_vars

\* ------------------------------------------------------------- FourierLayer
\* A tensor is a sequence of rows (axis 0) of equal length (axis 1).
Shape(t) == <<Len(t), Len(t[1])>>

Roll(s, k) == [i \in 1..Len(s) |-> s[((i - 1 - k) % Len(s)) + 1]]
\* torch.fft.fftshift / ifftshift along one axis: roll by n // 2, by -(n // 2)
fftshift(s) == Roll(s, Len(s) \div 2)
ifftshift(s) == Roll(s, 0 - (Len(s) \div 2))

\* mutant: the odd zero always goes to the end of the axis
PadCountsFloor(n, m) == <<(m - n) \div 2, (m - n) - ((m - n) \div 2)>>

\* zeros added before and after a shifted axis of length n grown to m: the odd
\* zero goes to the negative-frequency end of an odd axis, to the positive-
\* frequency end of an even axis
PadCounts(n, m) ==
    LET half == (m - n) \div 2
        extra == (m - n) % 2
    IN  IF n % 2 = 1 THEN <<half + extra, half>> ELSE <<half, half + extra>>

\* mutant: the odd coefficient is always dropped at the end of the axis
RemoveCountsFloor(m, n) == <<(m - n) \div 2, (m - n) - ((m - n) \div 2)>>

\* coefficients dropped before and after a shifted axis of length m cut to n
RemoveCounts(m, n) ==
    LET half == (m - n) \div 2
        extra == (m - n) % 2
    IN  IF n % 2 = 1 THEN <<half + extra, half>> ELSE <<half, half + extra>>

PadSeq(s, left, right, zero) ==
    [i \in 1..(left + Len(s) + right) |->
        IF i <= left \/ i > left + Len(s) THEN zero ELSE s[i - left]]

ZeroRow(k) == [j \in 1..k |-> 0]

PadAxis0(t, m) ==
    LET c == PadCounts(Len(t), m) IN PadSeq(t, c[1], c[2], ZeroRow(Len(t[1])))
PadAxis1(t, m) ==
    LET c == PadCounts(Len(t[1]), m) IN [i \in 1..Len(t) |-> PadSeq(t[i], c[1], c[2], 0)]

CutAxis0(t, n) ==
    LET c == RemoveCounts(Len(t), n) IN SubSeq(t, c[1] + 1, c[1] + n)
CutAxis1(t, n) ==
    LET c == RemoveCounts(Len(t[1]), n)
    IN  [i \in 1..Len(t) |-> SubSeq(t[i], c[1] + 1, c[1] + n)]

\* FourierLayer._zero_padding(fft_values, target_shape, dim)
ZeroPadding(t, target_shape, d) ==
    LET t0 == IF 0 \in d THEN PadAxis0(t, target_shape[1]) ELSE t
    IN  IF 1 \in d THEN PadAxis1(t0, target_shape[2]) ELSE t0

\* FourierLayer._remove_large_frequencies(fft_values, target_shape, dim)
RemoveLargeFrequencies(t, target_shape, d) ==
    LET t0 == IF 0 \in d THEN CutAxis0(t, target_shape[1]) ELSE t
    IN  IF 1 \in d THEN CutAxis1(t0, target_shape[2]) ELSE t0

\* torch.fft.fftshift / ifftshift over the axes d
Shift(t, d) ==
    LET t0 == IF 0 \in d THEN fftshift(t) ELSE t
    IN  IF 1 \in d THEN [i \in 1..Len(t0) |-> fftshift(t0[i])] ELSE t0
Unshift(t, d) ==
    LET t0 == IF 0 \in d THEN ifftshift(t) ELSE t
    IN  IF 1 \in d THEN [i \in 1..Len(t0) |-> ifftshift(t0[i])] ELSE t0

\* The tensors in standard order: n0 x n1 coefficients, all different (base = 1)
\* or with a zero-valued coefficient among them (base = 0).
Coefficients(n0, n1, base) ==
    [i \in 1..n0 |-> [j \in 1..n1 |-> base + (i - 1) * n1 + (j - 1)]]

InitFourier ==
    /\ fphase = "input"
    /\ dim \in {{0}, {0, 1}}
    /\ \E n0 \in 1..MaxLen, n1 \in 1..MaxLen, base \in {0, 1} :
          \* x_shifted = torch.fft.fftshift(x, dim)
          fft_values = Shift(Coefficients(n0, n1, base), dim)
    /\ padded = <<>>
    /\ cut = <<>>
    /\ profile = "none"
    /\ device = "cpu"
    /\ verboseArg = "None"
    /\ verbose = InitVerbose(device, verboseArg)
    /\ opLoc = "cpu"
    /\ distInit = FALSE
    /\ callerList = <<>>
    /\ fitNo = 0
    /\ pc = "off"
    /\ args = NoArgs
    /\ callbacks = <<>>
    /\ criterion = NoCriterion
    /\ operator = "plain"
    /\ data_loader = NoLoader
    /\ epoch = 0
    /\ it = 0
    /\ batch = 0
    /\ loss_train = NoLoss
    /\ loss_test = NoLoss
    /\ logs = NoLogs
    /\ trace = <<>>
    /\ optSteps = <<>>
    /\ LossOff
    /\ CnnOff

\* x_zero_padded = operator._zero_padding(x_shifted, target_shape, dim)
ZeroPad ==
    /\ fphase = "input"
    /\ \E p0 \in 0..MaxPad, p1 \in 0..MaxPad :
          /\ (1 \notin dim) => p1 = 0
          /\ padded' = ZeroPadding(fft_values,
                                   <<Len(fft_values) + p0, Len(fft_values[1]) + p1>>, dim)
    /\ fphase' = "padded"
    /\ UNCHANGED <<trainerVars, lossVars, cnnVars, fft_values, dim, cut>>

\* operator._remove_large_frequencies(x_zero_padded, target_shape, dim), back to
\* the shape of the input
RemoveLarge ==
    /\ fphase = "padded"
    /\ cut' = RemoveLargeFrequencies(padded, Shape(fft_values), dim)
    /\ fphase' = "cut"
    /\ UNCHANGED <<trainerVars, lossVars, cnnVars, fft_values, dim, padded>>

NextFourier ==
    \/ ZeroPad
    \/ RemoveLarge

SpecFourier == InitFourier /\ [][NextFourier]_vars

\* no fit and no Trainer: the state of the Trainer's variables elsewhere
TrainerOff ==
    /\ profile = "none"
    /\ device = "cpu"
    /\ verboseArg = "None"
    /\ verbose = InitVerbose(device, verboseArg)
    /\ opLoc = "cpu"
    /\ distInit = FALSE
    /\ callerList = <<>>
    /\ fitNo = 0
    /\ pc = "off"
    /\ args = NoArgs
    /\ callbacks = <<>>
    /\ criterion = NoCriterion
    /\ operator = "plain"
    /\ data_loader = NoLoader
    /\ epoch = 0
    /\ it = 0
    /\ batch = 0
    /\ loss_train = NoLoss
    /\ loss_test = NoLoss
    /\ logs = NoLogs
    /\ trace = <<>>
    /\ optSteps = <<>>
\* no spectral tensor
FourierOff ==
    /\ fphase = "off"
    /\ fft_values = <<>>
    /\ dim = {}
    /\ padded = <<>>
    /\ cut = <<>>

\* ------------------------------------------------------------- MSELoss
\* the rank of the labels v: (batch_size, x_size, coordinate_dim)
Rank == 3

RECURSIVE Numel(_)
\* torch.Tensor.numel: the product of the sizes
Numel(shape) == IF shape = <<>> THEN 1 ELSE Head(shape) * Numel(Tail(shape))

\* the shapes of rank r with sizes in 1..MaxDim
ShapesOfRank(r) == [1..r -> 1..MaxDim]
\* an operator may answer in any grouping of its dimensions
PredShapes == UNION { ShapesOfRank(r) : r \in 1..Rank }

\* n elements in row-major order: all 0 (k = 0) or k, 2k, 3k, ... modulo MaxVal + 1
Elements(n, k) == [i \in 1..n |-> (i * k) % (MaxVal + 1)]

\* mutant: the prediction is taken as it is, as view_as of an equal shape
CanReshapeSameShape(t, shape) == t.shape = shape

\* torch.Tensor.reshape(shape) raises unless the element counts agree
CanReshape(t, shape) == Numel(shape) = Len(t.data)
\* and keeps the elements in their row-major order
Reshape(t, shape) == Tensor(shape, t.data)

RECURSIVE SumSq(_, _)
SumSq(a, b) ==
    IF a = <<>> THEN 0
    ELSE (Head(a) - Head(b)) * (Head(a) - Head(b)) + SumSq(Tail(a), Tail(b))

\* torch.nn.MSELoss() on tensors of one shape: the mean of the squared differences
Mse(a, b) == Frac(SumSq(a.data, b.data), Len(b.data))

InitLoss ==
    /\ lphase = "input"
    /\ \E ps \in PredShapes, vs \in ShapesOfRank(Rank), kp \in 0..MaxVal, kv \in 0..MaxVal :
          /\ pred = Tensor(ps, Elements(Numel(ps), kp))
          /\ vlab = Tensor(vs, Elements(Numel(vs), kv))
    /\ opCalls = <<>>
    /\ v_pred = NoTensor
    /\ mseOut = NoLoss
    /\ CnnOff
    /\ TrainerOff
    /\ FourierOff

\* MSELoss.__call__(op, x, u, y, v)
MSELossCall ==
    /\ lphase = "input"
    \* v_pred = op(x, u, y)
    /\ opCalls' = Append(opCalls, <<"x", "u", "y">>)
    \* v_pred = v_pred.reshape(v.shape); return self.mse(v_pred, v)
    /\ IF CanReshape(pred, vlab.shape)
       THEN /\ v_pred' = Reshape(pred, vlab.shape)
            /\ mseOut' = Mse(v_pred', vlab)
            /\ lphase' = "returned"
       ELSE /\ v_pred' = pred
            /\ mseOut' = NoLoss
            /\ lphase' = "raised"
    /\ UNCHANGED <<trainerVars, fourierVars, cnnVars, pred, vlab>>

NextLoss == MSELossCall

SpecLoss == InitLoss /\ [][NextLoss]_vars

\* ------------------------------------------------------------- ConvolutionalNeuralNetwork
\* the defaults of width and kernel_size
Width == 16
KernelSize == 3

\* torch.nn.ConvNd(in_channels, out_channels, kernel_size=, padding=)
Conv(in, out, k, padding) == [in |-> in, out |-> out, kernel_size |-> k, padding |-> padding]

\* mutant: the message of the assertion taken at its word
DepthAtLeastOne(depth) == depth >= 1

\* line 34: assert depth > 1
DepthOk(depth) == depth > 1
\* line 40: assert shapes.x.dim in [1, 2, 3]
GridOk(xdim) == xdim \in {1, 2, 3}
\* line 41: [Conv1d, Conv2d, Conv3d][shapes.x.dim - 1]
ConvClass(xdim) == <<"Conv1d", "Conv2d", "Conv3d">>[xdim]

\* lines 38-52
BuildNet(a) ==
    LET padding == a.kernel_size \div 2
    IN  [conv   |-> ConvClass(a.xdim),
         first  |-> Conv(a.udim, a.width, a.kernel_size, padding),
         hidden |-> [i \in 1..(a.depth - 1) |->
                        Conv(a.width, a.width, a.kernel_size, padding)],
         last   |-> Conv(a.width, a.vdim, a.kernel_size, padding)]

InitCNN ==
    /\ cphase = "args"
    /\ cargs \in [depth : (0 - 1)..MaxDepth, xdim : 0..MaxXDim,
                  udim : 1..MaxDim, vdim : 1..MaxDim,
                  width : {Width}, kernel_size : {KernelSize}]
    /\ net = NoNet
    /\ cerr = ""
    /\ LossOff
    /\ TrainerOff
    /\ FourierOff

\* ConvolutionalNeuralNetwork.__init__(shapes, width, depth, kernel_size)
Construct ==
    /\ cphase = "args"
    /\ IF ~DepthOk(cargs.depth)
       THEN /\ cerr' = "Depth is at least one."
            /\ net' = NoNet
            /\ cphase' = "failed"
       ELSE IF ~GridOk(cargs.xdim)
       THEN /\ cerr' = "Only 1D, 2D, and 3D grids supported."
            /\ net' = NoNet
            /\ cphase' = "failed"
       ELSE /\ cerr' = ""
            /\ net' = BuildNet(cargs)
            /\ cphase' = "built"
    /\ UNCHANGED <<trainerVars, fourierVars, lossVars, cargs>>

NextCNN == Construct

SpecCNN == InitCNN /\ [][NextCNN]_vars

\* ------------------------------------------------------------- reading the trace
InFit == pc \notin {"idle", "off"}
Pos(ev) == {i \in DOMAIN trace : trace[i].ev = ev}
PosIn(ev, e) == {i \in DOMAIN trace : trace[i].ev = ev /\ trace[i].ep = e}
\* the callbacks that received call `ev` (in epoch e), in the order of the calls
Called(ev) ==
    LET s == SelectSeq(trace, LAMBDA x : x.ev = ev) IN [i \in DOMAIN s |-> s[i].cb]
CalledIn(ev, e) ==
    LET s == SelectSeq(trace, LAMBDA x : x.ev = ev /\ x.ep = e)
    IN  [i \in DOMAIN s |-> s[i].cb]
InLoop == {"step", "dataset_loss", "callback", "criterion"}
Min(S) == CHOOSE x \in S : \A y \in S : x <= y
Max(S) == CHOOSE x \in S : \A y \in S : x >= y

\* ------------------------------------------------------------- claims

\* C1: in every fit that returns (epochs exhausted or stopped by the criterion,
\* also on epoch 1), each entry of the effective callback list receives
\* on_train_begin exactly once, before any batch, and on_train_end exactly once,
\* after the last per-epoch callback call.
C1_BeginEndOnce ==
    /\ LET begins == Pos("on_train_begin")
           others == {j \in DOMAIN trace : trace[j].ev \in InLoop \cup {"on_train_end"}}
       IN  (begins # {} /\ others # {}) => Max(begins) < Min(others)
    /\ pc = "begin" => Pos("on_train_begin") = {}
    /\ pc \in {"loop", "batch", "callbacks", "criterion", "end", "raised"} =>
          /\ Called("on_train_begin") = callbacks
          /\ Pos("on_train_end") = {}
    /\ pc \in {"tocpu", "returned"} =>
          /\ Called("on_train_begin") = callbacks
          /\ Called("on_train_end") = callbacks
          /\ LET ends == Pos("on_train_end")
                 others == {j \in DOMAIN trace : trace[j].ev # "on_train_end"}
             IN  (ends # {} /\ others # {}) => Max(others) < Min(ends)

\* a fit stopped by the criterion on epoch 1 of 2 has returned, with callbacks
C1_Witness ==
    /\ pc = "returned"
    /\ it = 1 /\ args.epochs = 2
    /\ criterion.kind = "train"
    /\ Len(callbacks) >= 3
    /\ Called("on_train_end") = callbacks

\* C2: the criterion is evaluated exactly once per executed epoch, after the
\* epoch's batches and callbacks; once it answers true no batch, no Logs and no
\* further evaluation follows, on_train_end is still called, and a fit that
\* returns has executed min(epochs, first epoch with a true answer) epochs.
C2_CriterionPerEpoch ==
    /\ \A e \in 1..it :
          /\ Cardinality(PosIn("criterion", e)) <= 1
          /\ (e < it \/ pc \in {"loop", "end", "tocpu", "returned", "raised"}) =>
                Cardinality(PosIn("criterion", e)) = 1
    /\ \A i \in Pos("criterion") :
          LET e == trace[i].ep
          IN  /\ e \in 1..it
              /\ Cardinality({j \in PosIn("step", e) : j < i}) = data_loader.len
              /\ Cardinality({j \in PosIn("callback", e) : j < i}) = Len(callbacks)
              /\ \A j \in (i + 1)..Len(trace) : trace[j].ep # e
              /\ trace[i].res =>
                    /\ \A j \in (i + 1)..Len(trace) : trace[j].ev = "on_train_end"
                    /\ pc \in {"end", "tocpu", "returned"}
    /\ pc = "returned" =>
          LET stops == {trace[i].ep : i \in {k \in Pos("criterion") : trace[k].res}}
          IN  /\ Called("on_train_end") = callbacks
              /\ it = IF stops = {} THEN args.epochs ELSE Min(stops)
              /\ it <= args.epochs

\* a fit of 2 epochs stopped by the test-loss criterion after epoch 1 has returned
C2_Witness ==
    /\ pc = "returned"
    /\ args.epochs = 2 /\ it = 1
    /\ criterion.kind = "test"
    /\ data_loader.len = 2
    /\ trace[Len(trace)].ev = "on_train_end"

\* the loss the active criterion reads in the Logs of the epoch
LossRead(c, l) == IF c.kind = "train" THEN l.loss_train ELSE l.loss_test

C4_DevicePlacement ==
    /\ \A i \in Pos("step") \cup Pos("dataset_loss") : trace[i].loc = device
    /\ pc \in {"begin", "loop", "batch", "callbacks", "criterion", "end", "tocpu"} =>
          opLoc = device
    /\ pc = "returned" => opLoc = "cpu"

\* a second fit that trained on cuda:1 has returned, the operator on the host
C4_Witness ==
    /\ pc = "returned"
    /\ fitNo = 2
    /\ device = "cuda:1"
    /\ Pos("step") # {} /\ \A i \in Pos("step") : trace[i].loc = "cuda:1"
    /\ opLoc = "cpu"

\* C5: epochs run one after the other; the per-epoch callbacks are called after
\* all batches of the epoch and its test loss, in the order of the effective
\* list (the passed callbacks, then the console logger, then the scheduler); the
\* criterion is evaluated after the last callback of the epoch.
C5_EpochOrder ==
    /\ LET inloop == SelectSeq(trace, LAMBDA x : x.ev \in InLoop)
       IN  /\ \A i \in 1..(Len(inloop) - 1) : inloop[i].ep <= inloop[i + 1].ep
           /\ \A i \in DOMAIN inloop : inloop[i].ep \in 1..it
    /\ \A e \in 1..it :
          LET steps == PosIn("step", e)
              tests == PosIn("dataset_loss", e)
              calls == PosIn("callback", e)
              crits == PosIn("criterion", e)
          IN  /\ CalledIn("callback", e) \in {<<>>, callbacks}
              /\ (e < it \/ pc \notin {"batch", "callbacks"}) =>
                    CalledIn("callback", e) = callbacks
              /\ (calls \cup crits # {}) =>
                    /\ Cardinality(steps) = data_loader.len
                    /\ Cardinality(tests) = IF args.test_dataset THEN 1 ELSE 0
                    /\ \A j \in steps \cup tests : j < Min(calls \cup crits)
              /\ \A i \in crits, j \in calls : j < i
              /\ \A i \in tests, j \in steps : j < i
    /\ InFit =>
          /\ SubSeq(callbacks, 1, Len(args.passed)) = args.passed
          /\ \A i, j \in DOMAIN callbacks :
                (/\ callbacks[i] = Callback("print", fitNo)
                 /\ callbacks[j].kind \in {"linear", "scheduler"}
                 /\ j > Len(args.passed)) => i < j

\* the second epoch of a fit with a test set, two batches and four callbacks has
\* called its callbacks
C5_Witness ==
    /\ pc = "criterion"
    /\ it = 2
    /\ args.test_dataset
    /\ data_loader.len = 2
    /\ Len(callbacks) = 4
    /\ callbacks[1] # callbacks[2]
    /\ CalledIn("callback", 2) = callbacks

\* C6 (as claimed): the effective list is the passed callbacks, then a
\* PrintTrainingLoss iff the trainer is verbose, then the scheduler iff
\* lr_scheduler is not False; a Trainer built with verbose=False is not verbose,
\* adds no PrintTrainingLoss and prints no parameter count.
C6_VerboseFalseIsQuiet ==
    InFit =>
      /\ callbacks = args.passed
            \o (IF verbose THEN <<Callback("print", fitNo)>> ELSE <<>>)
            \o (IF args.lr_scheduler = "False" THEN <<>>
                ELSE IF args.lr_scheduler = "True" THEN <<Callback("linear", fitNo)>>
                ELSE <<CallerScheduler>>)
      /\ verboseArg = "False" =>
            /\ ~verbose
            /\ \A i \in DOMAIN callbacks : callbacks[i] # Callback("print", fitNo)
            /\ Pos("params") = {}

\* C7: a fit under an initialized process group trains the data-parallel wrapper
\* with a distributed sampler and no shuffling, whatever `shuffle`; otherwise it
\* trains the operator itself with no sampler and the caller's `shuffle`.  The
\* loader never has both a sampler and shuffling.
C7_Distributed ==
    InFit =>
      /\ distInit =>
            /\ operator = "ddp"
            /\ data_loader.sampler = "DistributedSampler"
            /\ data_loader.shuffle = FALSE
      /\ ~distInit =>
            /\ operator = "plain"
            /\ data_loader.sampler = "None"
            /\ data_loader.shuffle = args.shuffle
      /\ ~(data_loader.sampler # "None" /\ data_loader.shuffle)
      /\ \A i \in Pos("step") \cup Pos("dataset_loss") : trace[i].op = operator

\* a batch was stepped on the wrapper although the caller asked for shuffling
C7_Witness ==
    /\ pc = "batch" /\ batch = 1
    /\ distInit /\ args.shuffle
    /\ trace[Len(trace)].ev = "step" /\ trace[Len(trace)].op = "ddp"
    /\ data_loader.sampler = "DistributedSampler"

\* C8 (as claimed): a fit with a test-loss criterion and no test dataset fails
\* before on_train_begin and before any optimizer step; the test-loss criterion
\* is never evaluated on Logs without a test loss.
C8_FailsFast ==
    (InFit /\ criterion.kind = "test" /\ ~args.test_dataset) =>
      /\ Pos("on_train_begin") = {}
      /\ Pos("step") = {}
      /\ Pos("criterion") = {}

\* standard order of length m: the first ceil(n/2) coefficients of std, then
\* m - n zeros, then the other floor(n/2) coefficients
LayoutSeq(std, m, zero) ==
    LET n == Len(std)
        h == (n + 1) \div 2
    IN  [j \in 1..m |-> IF j <= h THEN std[j]
                        ELSE IF j <= h + (m - n) THEN zero
                        ELSE std[j - (m - n)]]
Layout(t, shape, d) ==
    LET t0 == IF 0 \in d THEN LayoutSeq(t, shape[1], ZeroRow(Len(t[1]))) ELSE t
    IN  IF 1 \in d THEN [i \in 1..Len(t0) |-> LayoutSeq(t0[i], shape[2], 0)] ELSE t0

C11_ReshapeThenMse ==
    lphase \in {"returned", "raised"} =>
      /\ opCalls = << <<"x", "u", "y">> >>
      /\ (Numel(pred.shape) = Numel(vlab.shape)) <=> (lphase = "returned")
      /\ lphase = "returned" =>
            /\ v_pred.shape = vlab.shape
            /\ v_pred.data = pred.data
            /\ ~IsNone(mseOut)
            /\ mseOut.den = Numel(vlab.shape)
            /\ mseOut.num = SumSq(pred.data, vlab.data)
      /\ lphase = "raised" => IsNone(mseOut)

\* a prediction of shape (2, 2) against labels of shape (2, 1, 2) has given the
\* loss 2/4
C11_Witness ==
    /\ lphase = "returned"
    /\ pred.shape = <<2, 2>>
    /\ vlab.shape = <<2, 1, 2>>
    /\ mseOut = Frac(2, 4)

RECURSIVE SumLoss(_)
\* the sum of the losses the optimizer steps returned
SumLoss(ss) == IF ss = <<>> THEN 0 ELSE Head(ss).loss.num + SumLoss(Tail(ss))

\* C13: in an epoch every batch of the data loader causes one optimizer step;
\* the step zeroes the gradients, computes the loss on (operator, x, u, y, v) of
\* that batch, backpropagates and returns the loss, in this order; an epoch has
\* as many steps as batches, and Logs.loss_train is the sum of the batch losses
\* divided by the number of batches.
C13_OneStepPerBatch ==
    pc \in {"batch", "callbacks", "criterion"} =>
      /\ Len(optSteps) = batch
      /\ Cardinality(PosIn("step", epoch + 1)) = batch
      /\ \A i \in DOMAIN optSteps :
            LET run == optSteps[i].closure
            IN  /\ optSteps[i].batch = i
                /\ [k \in DOMAIN run |-> run[k].call] =
                      <<"zero_grad", "loss_fn", "backward", "return">>
                /\ \A k \in DOMAIN run : run[k].batch = i /\ run[k].op = operator
                /\ optSteps[i].loss = run[2].loss
                /\ ~IsNone(optSteps[i].loss)
      /\ pc = "batch" => loss_train = Frac(SumLoss(optSteps), 1)
      /\ pc \in {"callbacks", "criterion"} => batch = data_loader.len
      /\ pc = "callbacks" => loss_train = Frac(SumLoss(optSteps), data_loader.len)
      /\ pc = "criterion" =>
            /\ logs.epoch = epoch + 1
            /\ logs.loss_train = Frac(SumLoss(optSteps), data_loader.len)

\* the second epoch of a fit had two batches with the losses 1 and 0: its Logs
\* carry the training loss 1/2
C13_Witness ==
    /\ pc = "criterion"
    /\ it = 2
    /\ data_loader.len = 2
    /\ Len(optSteps) = 2
    /\ optSteps[1].loss = Frac(1, 1) /\ optSteps[2].loss = Frac(0, 1)
    /\ logs.loss_train = Frac(1, 2)

\* the entries of a callback list whose kind is in ks
OfKind(cbs, ks) == {i \in DOMAIN cbs : cbs[i].kind \in ks}

\* C14 (as claimed): fit leaves the caller's list as the caller filled it, also
\* over several fits with the same list; the effective list of a fit holds at
\* most one console logger and at most one scheduler, and no scheduler created
\* by an earlier fit is called in a later one.
C14_CallerListUnchanged ==
    /\ callerList \in CallerLists
    /\ InFit =>
          /\ Cardinality(OfKind(callbacks, {"print"})) <= 1
          /\ Cardinality(OfKind(callbacks, {"linear", "scheduler"})) <= 1
          /\ \A i \in DOMAIN trace :
                trace[i].cb.kind = "linear" => trace[i].cb.id = fitNo

====
